---- MODULE Spec2Model ----
(***************************************************************************)
(* Model of the ursa route model (domain/schemas.py), of the deduplication  *)
(* engine (domain/tree.py), of the AiZynthFinder adapter                   *)
(* (adapters/aizynth_adapter.py), of the run identity (utils/hashing.py)   *)
(* and of the processing run (core.py, scripts/verify-hash.py).            *)
(*                                                                         *)
(* Strings are finite sequences of code points.  SHA-256 is modelled as an *)
(* injective function on strings (the digest of x is x between two         *)
(* brackets), so that equality of digests is equality of the hashed text   *)
(* and lexicographic comparison of digests is a fixed total order.         *)
(***************************************************************************)
EXTENDS Integers, Sequences, FiniteSets, Bags, TLC

VARIABLES routes, i, seen_signatures, unique_routes, memo, pc, call, result,
          raw_target_data, target_info, cand, yielded,
          raw_files, model_name, file_idx, run_hash, source_file_info, stats,
          final_output_data, manifest, processed_dir, verified

\* the state of a call of deduplicate_routes
dedupVars == <<routes, i, seen_signatures, unique_routes, memo>>

\* the state of a call of AizynthAdapter.adapt
adapterVars == <<raw_target_data, target_info, cand, yielded>>

\* the state of a call of process_model_run and of verify-hash
runVars == <<raw_files, model_name, file_idx, run_hash, source_file_info, stats,
             final_output_data, manifest, processed_dir, verified>>

vars == <<dedupVars, pc, call, result, adapterVars, runVars>>

(***************************************************************************)
(* Bounds of the model.                                                    *)
(***************************************************************************)
NumSmiles == 2
NumIds == 2
MaxNodes == 5
MaxRoutes == 3
MaxReactants == 2
MaxReactions == 2

Smiles == 1..NumSmiles
Ids == 1..NumIds

(***************************************************************************)
(* Strings.                                                                *)
(***************************************************************************)
Min(a, b) == IF a < b THEN a ELSE b

\* Python's str '<': lexicographic by code point, a proper prefix is smaller.
StrLess(a, b) ==
    \/ \E k \in 1..Min(Len(a), Len(b)) :
          /\ a[k] < b[k]
          /\ \A j \in 1..(k - 1) : a[j] = b[j]
    \/ /\ Len(a) < Len(b)
       /\ \A j \in 1..Len(a) : a[j] = b[j]

RECURSIVE Insert(_, _)
Insert(x, s) ==
    IF s = <<>> THEN <<x>>
    ELSE IF StrLess(x, Head(s)) THEN <<x>> \o s
    ELSE <<Head(s)>> \o Insert(x, Tail(s))

\* sorted(list_of_strings)
RECURSIVE sorted(_)
sorted(s) == IF s = <<>> THEN <<>> ELSE Insert(Head(s), sorted(Tail(s)))

\* sep.join(list_of_strings)
RECURSIVE join(_, _)
join(sep, s) ==
    IF s = <<>> THEN <<>>
    ELSE IF Len(s) = 1 THEN Head(s)
    ELSE Head(s) \o sep \o join(sep, Tail(s))

\* hashlib.sha256(x).hexdigest(), injective: the text between two brackets.
sha256_hexdigest(x) == <<40>> \o x \o <<41>>

\* the one-letter structure strings of the tests: "A", "B", ...
SmilesStr(s) == <<64 + s>>

MOLECULE_HASH_PREFIX == <<115>>
TREE_SIGNATURE_PREFIX == <<116>>
GTGT == <<62, 62>>
DOT == <<46>>

generate_molecule_hash(smiles) == MOLECULE_HASH_PREFIX \o sha256_hexdigest(smiles)

(***************************************************************************)
(* The route model.                                                        *)
(***************************************************************************)
ReactionNode(id, reaction_smiles, reactants) ==
    [id |-> id, reaction_smiles |-> reaction_smiles, reactants |-> reactants]

MoleculeNodeFields(id, molecule_hash, smiles, is_starting_material, reactions) ==
    [id |-> id, molecule_hash |-> molecule_hash, smiles |-> smiles,
     is_starting_material |-> is_starting_material, reactions |-> reactions]

\* the validator without the rule against several reactions
check_tree_logic_WithoutDagRule(self) ==
    LET num_reactions == Len(self.reactions) IN
    IF self.is_starting_material /\ num_reactions > 0 THEN "SchemaLogicError"
    ELSE IF ~self.is_starting_material /\ num_reactions = 0 THEN "SchemaLogicError"
    ELSE "ok"

\* MoleculeNode.check_tree_logic: "ok" or the error it raises.
check_tree_logic(self) ==
    LET num_reactions == Len(self.reactions) IN
    IF self.is_starting_material /\ num_reactions > 0 THEN "SchemaLogicError"
    ELSE IF ~self.is_starting_material /\ num_reactions = 0 THEN "SchemaLogicError"
    ELSE IF ~self.is_starting_material /\ num_reactions > 1 THEN "SchemaLogicError"
    ELSE "ok"

TargetInfo(smiles, id) == [smiles |-> smiles, id |-> id]

BenchmarkTree(target, retrosynthetic_tree) ==
    [target |-> target, retrosynthetic_tree |-> retrosynthetic_tree]


(***************************************************************************)
(* The deduplication engine.                                               *)
(***************************************************************************)
EmptyMemo == [k \in {} |-> <<>>]

\* the memo that is never written
MemoSet_NotWritten(m, key, value) == m

\* memo[key] = value
MemoSet(m, key, value) ==
    [k \in (DOMAIN m) \cup {key} |-> IF k = key THEN value ELSE m[k]]

\* the signature string without the hash of the node itself
SignatureString_WithoutOwnHash(sorted_signatures, molecule_hash) ==
    join(<<>>, sorted_signatures) \o GTGT

\* signature_string = "".join(sorted_signatures) + ">>" + node.molecule_hash
SignatureString(sorted_signatures, molecule_hash) ==
    join(<<>>, sorted_signatures) \o GTGT \o molecule_hash

\* _generate_tree_signature(node, memo): the returned signature and the memo
\* as the call leaves it.
RECURSIVE generate_tree_signature(_, _), ReactantSignatures(_, _)
generate_tree_signature(node, m) ==
    IF node.id \in DOMAIN m THEN [signature |-> m[node.id], memo |-> m]
    ELSE IF node.is_starting_material
    THEN [signature |-> node.molecule_hash,
          memo |-> MemoSet(m, node.id, node.molecule_hash)]
    ELSE LET r == ReactantSignatures(node.reactions[1].reactants, m)
             sorted_signatures == sorted(r.signatures)
             signature_string ==
                 SignatureString(sorted_signatures, node.molecule_hash)
             final_signature ==
                 TREE_SIGNATURE_PREFIX \o sha256_hexdigest(signature_string)
         IN  [signature |-> final_signature,
              memo |-> MemoSet(r.memo, node.id, final_signature)]

\* the loop over node.reactions[0].reactants, left to right, threading the memo
ReactantSignatures(reactants, m) ==
    IF reactants = <<>> THEN [signatures |-> <<>>, memo |-> m]
    ELSE LET first == generate_tree_signature(Head(reactants), m)
             rest == ReactantSignatures(Tail(reactants), first.memo)
         IN  [signatures |-> <<first.signature>> \o rest.signatures,
              memo |-> rest.memo]

\* the iteration that puts a new route in front of the kept ones
DedupIteration_Prepend(seen, unique, route) ==
    LET t == generate_tree_signature(route.retrosynthetic_tree, EmptyMemo)
    IN  IF t.signature \notin seen
        THEN [seen |-> seen \cup {t.signature}, unique |-> <<route>> \o unique,
              memo |-> t.memo]
        ELSE [seen |-> seen, unique |-> unique, memo |-> t.memo]

\* the iteration that forgets to record the signature of a kept route
DedupIteration_SeenNotUpdated(seen, unique, route) ==
    LET t == generate_tree_signature(route.retrosynthetic_tree, EmptyMemo)
    IN  IF t.signature \notin seen
        THEN [seen |-> seen, unique |-> Append(unique, route), memo |-> t.memo]
        ELSE [seen |-> seen, unique |-> unique, memo |-> t.memo]

\* the iteration that goes on with the memo the previous traversal left
DedupIteration_SharedMemo(seen, unique, route) ==
    LET t == generate_tree_signature(route.retrosynthetic_tree, memo)
    IN  IF t.signature \notin seen
        THEN [seen |-> seen \cup {t.signature}, unique |-> Append(unique, route),
              memo |-> t.memo]
        ELSE [seen |-> seen, unique |-> unique, memo |-> t.memo]

\* one iteration of the loop of deduplicate_routes
DedupIteration(seen, unique, route) ==
    LET t == generate_tree_signature(route.retrosynthetic_tree, EmptyMemo)
    IN  IF t.signature \notin seen
        THEN [seen |-> seen \cup {t.signature}, unique |-> Append(unique, route),
              memo |-> t.memo]
        ELSE [seen |-> seen, unique |-> unique, memo |-> t.memo]

RECURSIVE DedupLoop(_, _, _)
DedupLoop(seen, unique, rs) ==
    IF rs = <<>> THEN unique
    ELSE LET s == DedupIteration(seen, unique, Head(rs))
         IN  DedupLoop(s.seen, s.unique, Tail(rs))

\* deduplicate_routes(routes) as a function of its argument
deduplicate_routes(rs) == DedupLoop({}, <<>>, rs)

\* the signature deduplicate_routes computes for a route
RouteSignature(route) ==
    generate_tree_signature(route.retrosynthetic_tree, EmptyMemo).signature

(***************************************************************************)
(* Input routes.                                                           *)
(***************************************************************************)
RootId == <<0>>
ChildId(path_id, k) == path_id \o <<k>>
NodeIds == {<<k>> : k \in Ids}

ReactionSmiles(reactants, product_smiles) ==
    join(DOT, sorted([k \in 1..Len(reactants) |-> reactants[k].smiles]))
        \o GTGT \o product_smiles

\* The shapes of the ordered trees with n nodes, nodes numbered in preorder:
\* p[k] is the parent of node k, which lies on the path from node k - 1 up
\* to the root.
RECURSIVE IsAncestorOrSelf(_, _, _)
IsAncestorOrSelf(p, a, x) ==
    \/ x = a
    \/ x > 1 /\ IsAncestorOrSelf(p, a, p[x])

TreeShapes(n) ==
    {p \in [2..n -> 1..(n - 1)] :
        \A k \in 2..n : p[k] < k /\ IsAncestorOrSelf(p, p[k], k - 1)}

RECURSIVE ChildrenFrom(_, _, _, _)
ChildrenFrom(p, k, j, n) ==
    IF j > n THEN <<>>
    ELSE (IF p[j] = k THEN <<j>> ELSE <<>>) \o ChildrenFrom(p, k, j + 1, n)

\* The molecule tree of shape p rooted at node k, node j carrying the id
\* ids[j] and the structure smiles[j]; a node without reactants is a starting
\* material, any other node the product of one reaction.
RECURSIVE BuildTree(_, _, _, _, _)
BuildTree(p, ids, smiles, k, n) ==
    LET children == ChildrenFrom(p, k, k + 1, n)
        reactants == [c \in 1..Len(children) |->
                         BuildTree(p, ids, smiles, children[c], n)]
    IN  MoleculeNodeFields(ids[k], generate_molecule_hash(smiles[k]), smiles[k],
            children = <<>>,
            IF children = <<>> THEN <<>>
            ELSE <<ReactionNode(ids[k], ReactionSmiles(reactants, smiles[k]),
                                reactants)>>)

RouteOf(tree) == BenchmarkTree(TargetInfo(tree.smiles, tree.smiles), tree)

\* _build_simple_tree of the tests: a one-step route with positional ids
build_simple_tree(target_smiles, reactant_smiles_list) ==
    LET reactants == [k \in 1..Len(reactant_smiles_list) |->
            MoleculeNodeFields(ChildId(RootId, k - 1),
                generate_molecule_hash(reactant_smiles_list[k]),
                reactant_smiles_list[k], TRUE, <<>>)]
        reaction == ReactionNode(RootId,
            ReactionSmiles(reactants, target_smiles), reactants)
        root_node == MoleculeNodeFields(RootId,
            generate_molecule_hash(target_smiles), target_smiles, FALSE, <<reaction>>)
    IN  BenchmarkTree(TargetInfo(target_smiles, target_smiles), root_node)

SeqsUpTo(S, n) == UNION {[1..k -> S] : k \in 0..n}

SmilesStrs == {SmilesStr(s) : s \in Smiles}

SimpleRoutes ==
    {build_simple_tree(t, rl) :
        t \in SmilesStrs, rl \in SeqsUpTo(SmilesStrs, MaxReactants) \ {<<>>}}

SimpleRouteLists == SeqsUpTo(SimpleRoutes, MaxRoutes)

(***************************************************************************)
(* deduplicate_routes as a state machine.                                  *)
(***************************************************************************)
None == [kind |-> "None", op |-> "None"]

\* an exception that leaves the operation
Raise(error) == [kind |-> "error", error |-> error]

\* the argument of deduplicate_routes: a list of one-step routes, or one
\* route of any shape with at most MaxNodes molecule nodes, whose ids are
\* drawn from NodeIds or are pairwise distinct (the number of the node)
InitRoutes ==
    \/ routes \in SimpleRouteLists
    \/ \E n \in 1..MaxNodes :
         \E p \in TreeShapes(n), ids \in [1..n -> NodeIds],
            smiles \in [1..n -> SmilesStrs] :
             routes = <<RouteOf(BuildTree(p, ids, smiles, 1, n))>>
    \/ \E n \in 1..MaxNodes :
         \E p \in TreeShapes(n), smiles \in [1..n -> SmilesStrs] :
             routes = <<RouteOf(BuildTree(p, [k \in 1..n |-> <<k>>], smiles, 1, n))>>

\* no call of AizynthAdapter.adapt is in progress
AdapterIdle ==
    /\ raw_target_data = None
    /\ target_info = None
    /\ cand = 0
    /\ yielded = <<>>

\* no call of process_model_run is in progress
RunIdle ==
    /\ raw_files = <<>>
    /\ model_name = <<>>
    /\ file_idx = 0
    /\ run_hash = None
    /\ source_file_info = EmptyMemo
    /\ stats = None
    /\ final_output_data = EmptyMemo
    /\ manifest = None
    /\ processed_dir = {}
    /\ verified = None

\* nothing has been deduplicated
DedupIdle ==
    /\ routes = <<>>
    /\ i = 1
    /\ seen_signatures = {}
    /\ unique_routes = <<>>
    /\ memo = EmptyMemo

Init ==
    /\ InitRoutes
    /\ i = 1
    /\ seen_signatures = {}
    /\ unique_routes = <<>>
    /\ memo = EmptyMemo
    /\ pc = "loop"
    /\ call = None
    /\ result = None
    /\ AdapterIdle
    /\ RunIdle

\* for route in routes: ... (one iteration)
LoopBody ==
    /\ pc = "loop"
    /\ i <= Len(routes)
    /\ LET s == DedupIteration(seen_signatures, unique_routes, routes[i])
       IN  /\ seen_signatures' = s.seen
           /\ unique_routes' = s.unique
           /\ memo' = s.memo
    /\ i' = i + 1
    /\ UNCHANGED <<routes, pc, call, result, adapterVars, runVars>>

\* the return that empties the list it was given
Return_ClearsInput ==
    /\ pc = "loop"
    /\ i > Len(routes)
    /\ pc' = "done"
    /\ routes' = <<>>
    /\ UNCHANGED <<i, seen_signatures, unique_routes, memo, call, result,
                   adapterVars, runVars>>

\* return unique_routes
Return ==
    /\ pc = "loop"
    /\ i > Len(routes)
    /\ pc' = "done"
    /\ UNCHANGED <<dedupVars, call, result, adapterVars, runVars>>

Next == LoopBody \/ Return

Spec == Init /\ [][Next]_vars


(***************************************************************************)
(* Variants of a route, used to state the properties of the signature.     *)
(***************************************************************************)
Range(f) == {f[k] : k \in DOMAIN f}

IndexPermutations(n) == {q \in [1..n -> 1..n] : \A a, b \in 1..n : q[a] = q[b] => a = b}

PermuteSeq(s, q) == [k \in 1..Len(s) |-> s[q[k]]]

\* the node with the reactant list of its reaction replaced
WithReactants(node, reactants) ==
    [node EXCEPT !.reactions = <<[node.reactions[1] EXCEPT !.reactants = reactants]>>]

\* the route with another tree and the same target
WithTree(route, tree) == [route EXCEPT !.retrosynthetic_tree = tree]

IsProduct(node) == ~node.is_starting_material /\ Len(node.reactions) = 1

Reactants(node) == node.reactions[1].reactants

\* a one-step route: the root is the product of a reaction of starting materials
IsOneStep(node) ==
    /\ IsProduct(node)
    /\ \A k \in 1..Len(Reactants(node)) : Reactants(node)[k].is_starting_material

\* every tree obtained by reordering the reactant list of any of the reactions
\* of the tree, every node keeping its id and content
RECURSIVE Reorderings(_)
Reorderings(node) ==
    IF ~IsProduct(node) THEN {node}
    ELSE LET rs == Reactants(node)
             n == Len(rs)
             choices == {c \in [1..n -> UNION {Reorderings(rs[k]) : k \in 1..n}] :
                           \A k \in 1..n : c[k] \in Reorderings(rs[k])}
         IN  {WithReactants(node, PermuteSeq(c, q)) :
                 c \in choices, q \in IndexPermutations(n)}

\* the same tree with the ids the position of each node gives it
RECURSIVE WithPositionalIds(_, _)
WithPositionalIds(node, path_id) ==
    IF ~IsProduct(node) THEN [node EXCEPT !.id = path_id]
    ELSE LET rs == Reactants(node)
         IN  [node EXCEPT
                 !.id = path_id,
                 !.reactions = <<[node.reactions[1] EXCEPT
                     !.id = path_id,
                     !.reactants = [k \in 1..Len(rs) |->
                         WithPositionalIds(rs[k], ChildId(path_id, k - 1))]]>>]

\* the content of a tree up to the order of reactant lists, ids forgotten
RECURSIVE Canon(_)
Canon(node) ==
    [molecule_hash |-> node.molecule_hash,
     is_starting_material |-> node.is_starting_material,
     reactions |-> [r \in 1..Len(node.reactions) |->
         LET rs == node.reactions[r].reactants
             cs == {Canon(rs[k]) : k \in 1..Len(rs)}
         IN  [c \in cs |-> Cardinality({k \in 1..Len(rs) : Canon(rs[k]) = c})]]]

\* a starting-material node
Leaf(id, smiles) ==
    MoleculeNodeFields(id, generate_molecule_hash(smiles), smiles, TRUE, <<>>)

Leaves == {Leaf(id, s) : id \in NodeIds, s \in SmilesStrs}

\* the route with another final target structure and the same reactants
WithTarget(route, smiles) ==
    LET root == route.retrosynthetic_tree
    IN  BenchmarkTree(TargetInfo(smiles, smiles),
            [root EXCEPT
                !.smiles = smiles,
                !.molecule_hash = generate_molecule_hash(smiles),
                !.reactions = [r \in 1..Len(root.reactions) |->
                    [root.reactions[r] EXCEPT !.reaction_smiles =
                        ReactionSmiles(root.reactions[r].reactants, smiles)]]])


(***************************************************************************)
(* Properties of the route signature.  They are stated on a run of         *)
(* deduplicate_routes: routes[k] for k < i are the routes the loop has     *)
(* processed, and a variant of one of them is the next route of the list.  *)
(***************************************************************************)
Processed == 1..(i - 1)

\* the next route of the list is dropped as a duplicate
Dropped(route) ==
    DedupIteration(seen_signatures, unique_routes, route).unique = unique_routes

\* the next route of the list is kept
Kept(route) ==
    DedupIteration(seen_signatures, unique_routes, route).unique =
        Append(unique_routes, route)

\* C1: for a one-step route whose reaction has 2 or 3 reactants, every
\* permutation of the reactant list gives the same signature: in a list
\* holding the permuted variants of the route, all but the first are dropped.
C1_OneStepPermutationInvariance ==
    \A k \in Processed :
        LET root == routes[k].retrosynthetic_tree IN
        (IsOneStep(root) /\ Len(Reactants(root)) \in {2, 3}) =>
            \A q \in IndexPermutations(Len(Reactants(root))) :
                LET v == WithTree(routes[k],
                             WithReactants(root, PermuteSeq(Reactants(root), q)))
                IN  /\ RouteSignature(v) = RouteSignature(routes[k])
                    /\ Dropped(v)

\* C2: reordering the reactant list of any reaction at any level of a route,
\* every node keeping its id and content, leaves the root signature
\* unchanged: deduplicate_routes on the two variants returns one route.
C2_ReorderInvarianceAtEveryDepth ==
    \A k \in Processed :
        \A t \in Reorderings(routes[k].retrosynthetic_tree) :
            /\ RouteSignature(WithTree(routes[k], t)) = RouteSignature(routes[k])
            /\ Dropped(WithTree(routes[k], t))

\* C3: two trees identical in shape and in every node's structure hash have
\* the same signature whatever ids their nodes carry: a route and the same
\* route with other ids (those its positions give) are deduplicated to one.
C3_IdIndependence ==
    \A k \in Processed :
        LET v == WithTree(routes[k],
                     WithPositionalIds(routes[k].retrosynthetic_tree, RootId))
        IN  /\ RouteSignature(v) = RouteSignature(routes[k])
            /\ Dropped(v)

\* the routes (X+Y->C)+D->T: a root with two reactants, one a starting
\* material and the other the product of two starting materials
IsTwoStepWithIntermediate(root, c) ==
    /\ IsProduct(root)
    /\ Len(Reactants(root)) = 2
    /\ c \in 1..2
    /\ IsOneStep(Reactants(root)[c]) /\ Len(Reactants(Reactants(root)[c])) = 2
    /\ Reactants(root)[3 - c].is_starting_material

HashBag(nodes) ==
    LET hs == {nodes[k].molecule_hash : k \in 1..Len(nodes)}
    IN  [h \in hs |-> Cardinality({k \in 1..Len(nodes) : nodes[k].molecule_hash = h})]

\* the route (E+F->C)+D->T for the route (A+B->C)+D->T, C being reactant c
WithHistory(route, c, e, f) ==
    LET root == route.retrosynthetic_tree
    IN  WithTree(route, WithReactants(root,
            [Reactants(root) EXCEPT
                ![c] = WithReactants(Reactants(root)[c], <<e, f>>)]))

\* C4: two routes (A+B->C)+D->T and (E+F->C)+D->T whose intermediate C has
\* the same structure hash but is made from different reactants have
\* different signatures, and deduplicate_routes keeps both.
C4_HistorySensitivity ==
    (Len(routes) = 1 /\ i = 2) =>
        \A c \in 1..2 :
            IsTwoStepWithIntermediate(routes[1].retrosynthetic_tree, c) =>
                \A e, f \in Leaves :
                    HashBag(<<e, f>>) #
                        HashBag(Reactants(Reactants(routes[1].retrosynthetic_tree)[c]))
                    => /\ RouteSignature(WithHistory(routes[1], c, e, f))
                              # RouteSignature(routes[1])
                       /\ Kept(WithHistory(routes[1], c, e, f))

\* C5: two routes have the same signature only if they are equal up to the
\* order of reactant lists: deduplicate_routes never drops a route that
\* differs from every earlier route in more than reactant order.
C5_SignatureInjectiveUpToOrder ==
    \A o \in SimpleRoutes :
        Dropped(o) =>
            \E k \in Processed :
                Canon(routes[k].retrosynthetic_tree) = Canon(o.retrosynthetic_tree)

\* the reactant lists of two routes are identical
SameReactants(r1, r2) ==
    /\ IsProduct(r1.retrosynthetic_tree) /\ IsProduct(r2.retrosynthetic_tree)
    /\ Reactants(r1.retrosynthetic_tree) = Reactants(r2.retrosynthetic_tree)

\* C6: two routes with identical reactants and different final target
\* structures have different signatures and are never deduplicated against
\* each other.
C6_TargetSensitivity ==
    /\ \A k \in Processed : \A s \in SmilesStrs :
          (IsProduct(routes[k].retrosynthetic_tree)
              /\ s # routes[k].retrosynthetic_tree.smiles) =>
                 RouteSignature(WithTarget(routes[k], s)) # RouteSignature(routes[k])
    /\ \A a, b \in 1..Len(routes) :
          (SameReactants(routes[a], routes[b])
              /\ routes[a].retrosynthetic_tree.smiles
                     # routes[b].retrosynthetic_tree.smiles) =>
                 /\ RouteSignature(routes[a]) # RouteSignature(routes[b])
                 /\ (Len(routes) = 2 /\ pc = "done") => unique_routes = routes

\* witness of C6: the list <<A+B->T1, A+B->T2>> has been deduplicated and
\* both routes were kept
C6_Witness ==
    /\ pc = "done"
    /\ Len(routes) = 2
    /\ IsOneStep(routes[1].retrosynthetic_tree)
    /\ Len(Reactants(routes[1].retrosynthetic_tree)) = 2
    /\ SameReactants(routes[1], routes[2])
    /\ routes[1].retrosynthetic_tree.smiles # routes[2].retrosynthetic_tree.smiles
    /\ Len(unique_routes) = 2

(***************************************************************************)
(* Properties of the loop of deduplicate_routes.                           *)
(***************************************************************************)
\* the indices below n of the first occurrences of each signature
FirstOccurrences(n) ==
    {k \in 1..(n - 1) :
        \A j \in 1..(k - 1) : RouteSignature(routes[j]) # RouteSignature(routes[k])}

\* the routes at the indices of idx, in increasing order of index
RECURSIVE SubSeqAt(_, _)
SubSeqAt(idx, k) ==
    IF k > Len(routes) THEN <<>>
    ELSE (IF k \in idx THEN <<routes[k]>> ELSE <<>>) \o SubSeqAt(idx, k + 1)

\* C7: the output of deduplicate_routes is the subsequence of the input that
\* holds, for each distinct signature, the route at the smallest index
\* carrying it, in input order.
C7_StableFirstOccurrence ==
    unique_routes = SubSeqAt(FirstOccurrences(i), 1)

\* witness of C7: a finished run in which a later route was dropped and a
\* route after it kept
C7_Witness ==
    /\ pc = "done"
    /\ Len(routes) = 3
    /\ routes[1] # routes[2]
    /\ RouteSignature(routes[1]) = RouteSignature(routes[2])
    /\ RouteSignature(routes[1]) # RouteSignature(routes[3])
    /\ unique_routes = <<routes[1], routes[3]>>

\* C8: after any prefix of the input the kept list holds exactly one route
\* per signature seen: no two kept routes share a signature, the seen set is
\* the set of signatures of the kept routes, and every processed route's
\* signature is the signature of a kept route.
C8_OneRoutePerSignature ==
    /\ \A a, b \in 1..Len(unique_routes) :
          RouteSignature(unique_routes[a]) = RouteSignature(unique_routes[b]) => a = b
    /\ seen_signatures =
          {RouteSignature(unique_routes[a]) : a \in 1..Len(unique_routes)}
    /\ \A k \in Processed :
          \E a \in 1..Len(unique_routes) :
              RouteSignature(unique_routes[a]) = RouteSignature(routes[k])

\* witness of C8: two identical routes have been processed and collapsed
C8_Witness ==
    /\ i = 3
    /\ routes[1] = routes[2]
    /\ Len(unique_routes) = 1


(***************************************************************************)
(* Construction of the route model.                                        *)
(***************************************************************************)
\* MoleculeNode(id=..., ...): the new node, or the error of the validator
NewMoleculeNodeResult(fields) ==
    IF check_tree_logic(fields) = "ok"
    THEN [kind |-> "MoleculeNode", value |-> fields]
    ELSE [kind |-> "error", error |-> check_tree_logic(fields)]

\* BenchmarkTree(target=..., retrosynthetic_tree=...): no validator runs
NewBenchmarkTreeResult(target, tree) ==
    [kind |-> "BenchmarkTree", value |-> BenchmarkTree(target, tree)]

\* reactions that may be handed to the constructor of a molecule node
ReactionChoices(id, smiles) ==
    {ReactionNode(id, ReactionSmiles(rl, smiles), rl) :
        rl \in SeqsUpTo(Leaves, MaxReactants)}

TargetInfos == {TargetInfo(s, s) : s \in SmilesStrs}

InitModel ==
    /\ DedupIdle
    /\ pc = "model"
    /\ call = None
    /\ result = None
    /\ AdapterIdle
    /\ RunIdle

\* one behaviour constructs one molecule node and, from it, benchmark trees
NewMoleculeNode ==
    /\ pc = "model"
    /\ pc' = "node"
    /\ \E id \in NodeIds, smiles \in SmilesStrs, is_starting_material \in BOOLEAN :
         \E reactions \in SeqsUpTo(ReactionChoices(id, smiles), MaxReactions) :
            LET fields == MoleculeNodeFields(id, generate_molecule_hash(smiles),
                              smiles, is_starting_material, reactions)
            IN  /\ call' = [op |-> "MoleculeNode", args |-> fields]
                /\ result' = NewMoleculeNodeResult(fields)
    /\ UNCHANGED <<dedupVars, adapterVars, runVars>>

NewBenchmarkTree ==
    /\ pc = "node"
    /\ result.kind = "MoleculeNode"
    /\ pc' = "tree"
    /\ \E target \in TargetInfos :
          /\ call' = [op |-> "BenchmarkTree",
                      args |-> [target |-> target, retrosynthetic_tree |-> result.value]]
          /\ result' = NewBenchmarkTreeResult(target, result.value)
    /\ UNCHANGED <<dedupVars, adapterVars, runVars>>

\* node.<name> = value on a constructed MoleculeNode: the class is a plain
\* pydantic BaseModel (neither frozen nor validating assignments), so the
\* attribute is set and check_tree_logic does not run again
SetAttr ==
    /\ pc = "node"
    /\ result.kind = "MoleculeNode"
    /\ pc' = "mutated"
    /\ \/ \E value \in BOOLEAN :
            /\ call' = [op |-> "setattr", name |-> "is_starting_material",
                        args |-> result.value]
            /\ result' = [result EXCEPT !.value.is_starting_material = value]
       \/ \E value \in NodeIds :
            /\ call' = [op |-> "setattr", name |-> "id", args |-> result.value]
            /\ result' = [result EXCEPT !.value.id = value]
       \/ \E value \in SeqsUpTo(ReactionChoices(result.value.id,
                                      result.value.smiles), MaxReactions) :
            /\ call' = [op |-> "setattr", name |-> "reactions",
                        args |-> result.value]
            /\ result' = [result EXCEPT !.value.reactions = value]
    /\ UNCHANGED <<dedupVars, adapterVars, runVars>>

\* node.reactions[0].reactants[k] = other on a constructed MoleculeNode, as
\* the tests of the deduplication engine do
SetItem ==
    /\ pc = "node"
    /\ result.kind = "MoleculeNode"
    /\ Len(result.value.reactions) > 0
    /\ pc' = "mutated"
    /\ \E k \in 1..Len(result.value.reactions[1].reactants), other \in Leaves :
          /\ call' = [op |-> "setitem", name |-> "reactants", args |-> result.value]
          /\ result' = [result EXCEPT !.value.reactions[1].reactants[k] = other]
    /\ UNCHANGED <<dedupVars, adapterVars, runVars>>

NextModel == NewMoleculeNode \/ NewBenchmarkTree \/ SetAttr \/ SetItem

SpecModel == InitModel /\ [][NextModel]_vars

C10_RootMatchesTarget ==
    result.kind = "BenchmarkTree" =>
        result.value.retrosynthetic_tree.smiles = result.value.target.smiles

\* the node invariants hold at every node of the tree
RECURSIVE AllNodesValid(_)
AllNodesValid(node) ==
    /\ check_tree_logic(node) = "ok"
    /\ \A r \in 1..Len(node.reactions) :
          \A k \in 1..Len(node.reactions[r].reactants) :
              AllNodesValid(node.reactions[r].reactants[k])

\* C11: the route model is immutable after construction: no operation on a
\* constructed node (assigning a field, replacing an element of a reactants
\* list) changes it, so the node invariants hold for every node in every
\* reachable state.
C11_ImmutableAfterConstruction ==
    /\ call.op \in {"setattr", "setitem"} => result.value = call.args
    /\ result.kind = "MoleculeNode" => AllNodesValid(result.value)


(***************************************************************************)
(* Run identity (utils/hashing.py).                                        *)
(***************************************************************************)
RUN_HASH_PREFIX == <<117>>

\* get_file_hash(path): the digest of the bytes of a readable file
get_file_hash(bytes) == sha256_hexdigest(bytes)

\* the run hash computed from the hashes in the order they are given
generate_run_hash_Unsorted(name, file_hashes) ==
    RUN_HASH_PREFIX \o sha256_hexdigest(name \o join(<<>>, file_hashes))

\* generate_run_hash(model_name, file_hashes)
generate_run_hash(name, file_hashes) ==
    LET sorted_hashes == sorted(file_hashes)
        run_signature == name \o join(<<>>, sorted_hashes)
    IN  RUN_HASH_PREFIX \o sha256_hexdigest(run_signature)

(***************************************************************************)
(* The processing run (core.py) and its verification                       *)
(* (scripts/verify-hash.py).                                               *)
(***************************************************************************)
MaxFiles == 2
MaxRawRoutes == 2

EmptyDict == [k \in {} |-> None]

\* d[key] = value
DictSet(d, key, value) ==
    [k \in (DOMAIN d) \cup {key} |-> IF k = key THEN value ELSE d[k]]

\* the names of the '*.json.gz' files of the raw directory
FileNames == {<<96 + k>> : k \in 1..MaxFiles}

\* the bytes a raw file may hold
FileBytes == {<<119 + k>> : k \in 1..MaxFiles}

\* the model names given to process_model_run: a name, another name, and the
\* first name followed by the text of a file hash
ModelNames ==
    {<<109>>, <<110>>} \cup {<<109>> \o get_file_hash(b) : b \in FileBytes}

\* the targets map: one known target
KnownTargetId == <<49>>
UnknownTargetId == <<50>>
targets_map == [t \in {KnownTargetId} |-> TargetInfo(SmilesStr(1), t)]

\* the routes the adapter's transform returns for the raw routes of the model
RunRoutes ==
    {[build_simple_tree(SmilesStr(1), rl) EXCEPT !.target = targets_map[KnownTargetId]] :
        rl \in {<<SmilesStr(1), SmilesStr(2)>>, <<SmilesStr(2), SmilesStr(1)>>,
                <<SmilesStr(2), SmilesStr(2)>>}}

\* a raw route of a file: whether it passes DMSRouteList's validation, and
\* what adapter.transform does with it (returns a tree or raises an
\* UrsaException)
RawRoutes ==
    {[valid |-> TRUE, outcome |-> [kind |-> "BenchmarkTree", value |-> r]] :
        r \in RunRoutes}
    \cup {[valid |-> v, outcome |-> [kind |-> "error", error |-> "UrsaException"]] :
        v \in BOOLEAN}

\* the value a file holds for a target id: a list of raw routes, or something
\* that is not a list
RawRoutesLists ==
    {[is_list |-> TRUE, items |-> l] : l \in SeqsUpTo(RawRoutes, MaxRawRoutes)}
    \cup {[is_list |-> FALSE, items |-> <<>>]}

\* what load_json_gz makes of a file: an UrsaIOException, or the dict of the
\* file as the list of its items
FileContents ==
    {[kind |-> "UrsaIOException", targets |-> <<>>]}
    \cup {[kind |-> "dict", targets |-> known \o unknown] :
            known \in {<<>>} \cup {<<[target_id |-> KnownTargetId, raw_routes_list |-> l]>> :
                                      l \in RawRoutesLists},
            unknown \in {<<>>, <<[target_id |-> UnknownTargetId,
                                  raw_routes_list |-> [is_list |-> TRUE, items |-> <<>>]]>>}}

\* DMSRouteList.model_validate(raw_routes_list) succeeds
DMSRouteListValid(raw_routes_list) ==
    /\ raw_routes_list.is_list
    /\ \A k \in 1..Len(raw_routes_list.items) : raw_routes_list.items[k].valid

\* the loop over validated_routes.root: the transformed trees and the number
\* of routes whose transformation raised
RECURSIVE TransformAll(_)
TransformAll(raw_routes) ==
    IF raw_routes = <<>> THEN [transformed_trees |-> <<>>, failed |-> 0]
    ELSE LET rest == TransformAll(Tail(raw_routes))
             tree == Head(raw_routes).outcome
         IN  IF tree.kind = "BenchmarkTree"
             THEN [transformed_trees |-> <<tree.value>> \o rest.transformed_trees,
                   failed |-> rest.failed]
             ELSE [transformed_trees |-> rest.transformed_trees,
                   failed |-> rest.failed + 1]

\* the calls of the adapter made for the validated routes of a target: one
\* adapter.transform(raw_route, target_info) per route, in order
AdapterCalls(raw_routes, info) ==
    [k \in 1..Len(raw_routes) |->
        [op |-> "transform", raw_data |-> raw_routes[k], target_info |-> info]]

\* the body of the loop over the targets of a file; acc holds stats,
\* final_output_data and the calls the adapter has received
ProcessTarget(acc, target_id, raw_routes_list) ==
    IF target_id \notin DOMAIN targets_map THEN acc
    ELSE IF ~DMSRouteListValid(raw_routes_list)
    THEN LET num_routes == IF raw_routes_list.is_list
                           THEN Len(raw_routes_list.items) ELSE 1
         IN  [acc EXCEPT !.stats.failed = @ + num_routes]
    ELSE LET t == TransformAll(raw_routes_list.items)
             unique_trees == deduplicate_routes(t.transformed_trees)
             num_unique == Len(unique_trees)
             failed == acc.stats.failed + t.failed
             calls == acc.calls
                 \o AdapterCalls(raw_routes_list.items, targets_map[target_id])
         IN  IF num_unique > 0
             THEN [stats |->
                      [succeeded |-> acc.stats.succeeded + num_unique,
                       failed |-> failed,
                       targets_with_pred |-> acc.stats.targets_with_pred \cup {target_id},
                       preds_per_target |-> Append(acc.stats.preds_per_target, num_unique)],
                   final_output_data |->
                      DictSet(acc.final_output_data, target_id, unique_trees),
                   calls |-> calls]
             ELSE [acc EXCEPT !.stats.failed = failed, !.calls = calls]

RECURSIVE ProcessTargets(_, _)
ProcessTargets(acc, targets) ==
    IF targets = <<>> THEN acc
    ELSE ProcessTargets(
             ProcessTarget(acc, Head(targets).target_id, Head(targets).raw_routes_list),
             Tail(targets))

RESULTS_SUFFIX == <<45, 114>>
MANIFEST_SUFFIX == <<45, 109>>

\* the clock readings of the model
Timestamps == {1, 2}

\* the entries of the raw directory that glob("*.json.gz") matches: files that
\* can be opened, and entries that cannot (opening them is an OSError, in
\* load_json_gz as in get_file_hash)
RawEntries ==
    [name : FileNames, bytes : FileBytes, data : FileContents, readable : {TRUE}]
    \cup [name : FileNames, bytes : FileBytes,
          data : {[kind |-> "UrsaIOException", targets |-> <<>>]},
          readable : {FALSE}]

\* the raw directory as sorted(glob("*.json.gz")) lists it: entries of
\* distinct names in the order of their names; files of equal bytes load
\* equally
RawDirs ==
    {fs \in SeqsUpTo(RawEntries, MaxFiles) :
        /\ \A a, b \in 1..Len(fs) : a < b => StrLess(fs[a].name, fs[b].name)
        /\ \A a, b \in 1..Len(fs) :
              (fs[a].readable /\ fs[b].readable /\ fs[a].bytes = fs[b].bytes)
                  => fs[a].data = fs[b].data}

\* [get_file_hash(p) for p in raw_files]
FileHashes(fs) == [k \in 1..Len(fs) |-> get_file_hash(fs[k].bytes)]

\* get_file_hash raises for one of the entries
HashingRaises(fs) == \E k \in 1..Len(fs) : ~fs[k].readable

\* json.dumps(data) of save_json_gz raises TypeError when the dict holds a
\* BenchmarkTree object (a pydantic model that was not dumped)
JsonSerializable(data) ==
    \A k \in DOMAIN data : \A j \in 1..Len(data[k]) : "retrosynthetic_tree" \notin DOMAIN data[k][j]

\* save_json_gz(data, path) on a writable directory: the file it writes, or
\* the UrsaSerializationError it raises
save_json_gz(data, path) ==
    IF JsonSerializable(data)
    THEN [kind |-> "file", value |-> [name |-> path, content |-> data]]
    ELSE Raise("UrsaSerializationError")

\* round(sum / n, 2) in hundredths, 0 when n is 0 (the quotients of the
\* model are exact in hundredths or below the half)
AvgHundredths(total, n) == IF n > 0 THEN (200 * total + n) \div (2 * n) ELSE 0

RECURSIVE Sum(_)
Sum(s) == IF s = <<>> THEN 0 ELSE Head(s) + Sum(Tail(s))

\* max(s, default=0)
RECURSIVE Max0(_)
Max0(s) ==
    IF s = <<>> THEN 0
    ELSE LET m == Max0(Tail(s)) IN IF Head(s) > m THEN Head(s) ELSE m

\* sorted(d.keys())
RECURSIVE SortedKeys(_)
SortedKeys(S) ==
    IF S = {} THEN <<>>
    ELSE LET m == CHOOSE x \in S : \A y \in S \ {x} : StrLess(x, y)
         IN  <<m>> \o SortedKeys(S \ {m})

InitRun ==
    /\ DedupIdle
    /\ AdapterIdle
    /\ pc = "run"
    /\ call = [op |-> "adapter", mock_calls |-> <<>>]
    /\ result = None
    /\ raw_files \in RawDirs
    /\ model_name \in ModelNames
    /\ file_idx = 0
    /\ run_hash = None
    /\ source_file_info = EmptyDict
    /\ stats = None
    /\ final_output_data = EmptyDict
    /\ manifest = None
    /\ processed_dir = {}
    /\ verified = None

\* the start of a run that goes on without raw files
RunStart_WithoutAbort ==
    /\ pc = "run"
    /\ IF HashingRaises(raw_files)
       THEN /\ pc' = "raised"
            /\ result' = Raise("UrsaException")
            /\ UNCHANGED <<run_hash, stats, file_idx>>
       ELSE /\ pc' = "files"
            /\ run_hash' = generate_run_hash(model_name, FileHashes(raw_files))
            /\ stats' = [succeeded |-> 0, failed |-> 0, targets_with_pred |-> {},
                         preds_per_target |-> <<>>]
            /\ file_idx' = 1
            /\ UNCHANGED result
    /\ UNCHANGED <<dedupVars, adapterVars, call, raw_files, model_name,
                   source_file_info, final_output_data, manifest, processed_dir,
                   verified>>

\* process_model_run up to the processing loop: without raw files it returns,
\* otherwise it computes the run hash of all raw files (get_file_hash may
\* raise, and nothing catches it) and sets up the accumulators
RunStart ==
    /\ pc = "run"
    /\ IF raw_files = <<>>
       THEN /\ pc' = "aborted"
            /\ UNCHANGED <<run_hash, stats, file_idx, result>>
       ELSE IF HashingRaises(raw_files)
       THEN /\ pc' = "raised"
            /\ result' = Raise("UrsaException")
            /\ UNCHANGED <<run_hash, stats, file_idx>>
       ELSE /\ pc' = "files"
            /\ run_hash' = generate_run_hash(model_name, FileHashes(raw_files))
            /\ stats' = [succeeded |-> 0, failed |-> 0, targets_with_pred |-> {},
                         preds_per_target |-> <<>>]
            /\ file_idx' = 1
            /\ UNCHANGED result
    /\ UNCHANGED <<dedupVars, adapterVars, call, raw_files, model_name,
                   source_file_info, final_output_data, manifest, processed_dir,
                   verified>>

\* one iteration of the loop over raw_files
ProcessFile ==
    /\ pc = "files"
    /\ file_idx <= Len(raw_files)
    /\ LET file_path == raw_files[file_idx]
       IN  IF file_path.data.kind = "UrsaIOException"
           THEN UNCHANGED <<source_file_info, stats, final_output_data, call>>
           ELSE LET acc == ProcessTargets(
                        [stats |-> stats, final_output_data |-> final_output_data,
                         calls |-> call.mock_calls],
                        file_path.data.targets)
                IN  /\ source_file_info' = DictSet(source_file_info, file_path.name,
                                               get_file_hash(file_path.bytes))
                    /\ stats' = acc.stats
                    /\ final_output_data' = acc.final_output_data
                    /\ call' = [call EXCEPT !.mock_calls = acc.calls]
    /\ file_idx' = file_idx + 1
    /\ UNCHANGED <<dedupVars, adapterVars, pc, result, raw_files, model_name,
                   run_hash, manifest, processed_dir, verified>>

\* the final write: the results file when there is a route (save_json_gz
\* may raise, and nothing catches it), and then the manifest
WriteManifest ==
    /\ pc = "files"
    /\ file_idx > Len(raw_files)
    /\ \E now \in Timestamps :
         LET output_filename == IF final_output_data # EmptyDict
                                THEN run_hash \o RESULTS_SUFFIX ELSE None
             saved == save_json_gz(final_output_data, output_filename)
             num_targets_with_preds == Cardinality(stats.targets_with_pred)
             m == [run_hash |-> run_hash,
                   model_name |-> model_name,
                   results_file |-> output_filename,
                   processing_timestamp_utc |-> now,
                   source_files |-> source_file_info,
                   statistics |->
                     [total_unique_routes_saved |-> stats.succeeded,
                      total_routes_failed_or_duplicate |-> stats.failed,
                      num_targets_with_at_least_one_route |-> num_targets_with_preds,
                      avg_unique_routes_per_successful_target |->
                          AvgHundredths(Sum(stats.preds_per_target),
                                        num_targets_with_preds),
                      max_unique_routes_for_any_target |->
                          Max0(stats.preds_per_target)]]
         IN  IF final_output_data # EmptyDict /\ saved.kind = "error"
             THEN /\ pc' = "raised"
                  /\ result' = saved
                  /\ UNCHANGED <<manifest, processed_dir>>
             ELSE /\ pc' = "written"
                  /\ manifest' = m
                  /\ processed_dir' =
                         (IF final_output_data # EmptyDict THEN {saved.value} ELSE {})
                         \cup {[name |-> run_hash \o MANIFEST_SUFFIX, content |-> m]}
                  /\ UNCHANGED result
    /\ UNCHANGED <<dedupVars, adapterVars, call, raw_files, model_name,
                   file_idx, run_hash, source_file_info, stats, final_output_data,
                   verified>>

\* the file of the raw directory with the given name
RawFile(filename) ==
    CHOOSE f \in Range(raw_files) : f.name = filename

\* verify-hash on the manifest and the unchanged raw directory
VerifyHash ==
    /\ pc = "written"
    /\ pc' = "verified"
    /\ LET source_files == manifest.source_files
           filenames == SortedKeys(DOMAIN source_files)
       IN  IF \E k \in 1..Len(filenames) :
                  \A f \in Range(raw_files) : f.name # filenames[k]
           THEN verified' = "FAILURE"
           ELSE LET recalculated_file_hashes ==
                        [k \in 1..Len(filenames) |->
                            get_file_hash(RawFile(filenames[k]).bytes)]
                    recalculated_run_hash ==
                        generate_run_hash(manifest.model_name, recalculated_file_hashes)
                IN  verified' = IF recalculated_run_hash = manifest.run_hash
                                THEN "SUCCESS" ELSE "FAILURE"
    /\ UNCHANGED <<dedupVars, adapterVars, call, result, raw_files, model_name,
                   file_idx, run_hash, source_file_info, stats, final_output_data,
                   manifest, processed_dir>>

NextRun == RunStart \/ ProcessFile \/ WriteManifest \/ VerifyHash

SpecRun == InitRun /\ [][NextRun]_vars

\* C12: for every run that writes a manifest, whatever subset of the raw
\* files loads, the run hash recomputed from the manifest's model name and
\* the hashes of the files named in its source_files equals the manifest's
\* run hash: verify-hash succeeds.
C12_VerificationContract ==
    pc = "verified" => verified = "SUCCESS"

\* the multiset of the elements of a sequence
BagOfSeq(s) ==
    [x \in Range(s) |-> Cardinality({k \in 1..Len(s) : s[k] = x})]

\* C13: the run hash of (m', H') equals the run hash of the run exactly when
\* m' is the model name of the run and H' holds the hashes of its files (as
\* multisets).
C13_RunHashInjective ==
    run_hash # None =>
        \A m \in ModelNames :
            \A H \in SeqsUpTo({get_file_hash(b) : b \in FileBytes}, MaxFiles) :
                generate_run_hash(m, H) = run_hash
                    <=> (m = model_name /\ BagOfSeq(H) = BagOfSeq(FileHashes(raw_files)))

\* C14: the run hash is the same for every permutation of the list of file
\* hashes, and carries the fixed prefix.
C14_RunHashOrderInvariant ==
    run_hash # None =>
        /\ \A q \in IndexPermutations(Len(raw_files)) :
              generate_run_hash(model_name, PermuteSeq(FileHashes(raw_files), q))
                  = run_hash
        /\ SubSeq(run_hash, 1, Len(RUN_HASH_PREFIX)) = RUN_HASH_PREFIX

\* witness of C14: the run hash of two files whose hashes are listed in
\* decreasing order has been computed
C14_Witness ==
    /\ run_hash # None
    /\ Len(raw_files) = 2
    /\ StrLess(get_file_hash(raw_files[2].bytes), get_file_hash(raw_files[1].bytes))

\* the manifests in the processed directory
Manifests ==
    {f \in processed_dir :
        SubSeq(f.name, Len(f.name) - Len(MANIFEST_SUFFIX) + 1, Len(f.name))
            = MANIFEST_SUFFIX}

\* C21: when at least one raw file exists, process_model_run never ends by an
\* exception, whatever files, targets and routes fail, and once it has ended
\* the processed directory holds exactly one manifest.
C21_RunCompletes ==
    raw_files # <<>> =>
        /\ pc # "raised"
        /\ pc \in {"written", "verified"} => Cardinality(Manifests) = 1

\* C22: when the raw directory holds no '*.json.gz' file, process_model_run
\* returns without a call of the adapter and without a file (results or
\* manifest) in the processed directory.
C22_NoFilesNoEffect ==
    (raw_files = <<>> /\ pc # "run") =>
        /\ pc = "aborted"
        /\ call.mock_calls = <<>>
        /\ processed_dir = {}

\* witness of C22: a run on an empty raw directory has returned
C22_Witness ==
    /\ raw_files = <<>>
    /\ pc = "aborted"
    /\ run_hash = None

\* the calls the adapter is to receive for the targets of a file: one
\* adapt(raw_target_data, target_info) for each target of the targets map,
\* with the raw data of the target as read from the file
RECURSIVE ExpectedAdaptCalls(_)
ExpectedAdaptCalls(targets) ==
    IF targets = <<>> THEN <<>>
    ELSE LET t == Head(targets)
         IN  (IF t.target_id \in DOMAIN targets_map
              THEN <<[op |-> "adapt", raw_data |-> t.raw_routes_list,
                      target_info |-> targets_map[t.target_id]]>>
              ELSE <<>>)
             \o ExpectedAdaptCalls(Tail(targets))

\* the calls expected for the first n raw files
RECURSIVE ExpectedCallsUpTo(_)
ExpectedCallsUpTo(n) ==
    IF n = 0 THEN <<>>
    ELSE ExpectedCallsUpTo(n - 1)
         \o (IF raw_files[n].data.kind = "dict"
             THEN ExpectedAdaptCalls(raw_files[n].data.targets) ELSE <<>>)

\* C23: for each target id of a loaded raw file that is in the targets map,
\* process_model_run calls the adapter's adapt exactly once, with the target's
\* raw data as read from the file and the target's TargetInfo; the adapter
\* receives no other call.
C23_AdaptOncePerTarget ==
    pc = "files" => call.mock_calls = ExpectedCallsUpTo(file_idx - 1)

\* the routes attempted in the targets of a file: those of the targets of the
\* targets map (a value that is not a list is attempted as one route)
RECURSIVE AttemptedIn(_)
AttemptedIn(targets) ==
    IF targets = <<>> THEN 0
    ELSE LET t == Head(targets)
         IN  (IF t.target_id \notin DOMAIN targets_map THEN 0
              ELSE IF t.raw_routes_list.is_list THEN Len(t.raw_routes_list.items)
              ELSE 1)
             + AttemptedIn(Tail(targets))

\* the routes attempted in the first n raw files
RECURSIVE AttemptedUpTo(_)
AttemptedUpTo(n) ==
    IF n = 0 THEN 0
    ELSE AttemptedUpTo(n - 1)
         + (IF raw_files[n].data.kind = "dict"
            THEN AttemptedIn(raw_files[n].data.targets) ELSE 0)

RECURSIVE TotalRoutes(_)
TotalRoutes(d) ==
    IF DOMAIN d = {} THEN 0
    ELSE LET key == CHOOSE k \in DOMAIN d : TRUE
         IN  Len(d[key]) + TotalRoutes([k \in (DOMAIN d) \ {key} |-> d[k]])

\* C29: after every iteration of the loop over the raw files, the succeeded
\* counter equals the number of routes held in final_output_data, and the
\* number of targets counted as having a route equals the number of its
\* keys, also when a target id occurs in more than one raw file.
C29_AccumulatorInvariant ==
    (pc = "files" /\ stats # None) =>
        /\ stats.succeeded = TotalRoutes(final_output_data)
        /\ Cardinality(stats.targets_with_pred) = Cardinality(DOMAIN final_output_data)


(***************************************************************************)
(* The AiZynthFinder adapter (adapters/aizynth_adapter.py).                *)
(***************************************************************************)
MaxRawNodes == 5
MaxMixedNodes == 3

URSA_MOL == <<117, 114, 115, 97, 45, 109, 111, 108>>
URSA_RXN == <<117, 114, 115, 97, 45, 114, 120, 110>>
ROOT_PATH == URSA_MOL \o <<45, 114, 111, 111, 116>>
DASH == <<45>>

\* str(n) of a natural number
RECURSIVE Str(_)
Str(n) == IF n < 10 THEN <<48 + n>> ELSE Str(n \div 10) \o <<48 + (n % 10)>>

\* s.startswith(prefix)
StartsWith(s, prefix) ==
    Len(s) >= Len(prefix) /\ SubSeq(s, 1, Len(prefix)) = prefix

\* s.replace(old, new), old not empty
RECURSIVE replace(_, _, _)
replace(s, old, new) ==
    IF s = <<>> THEN <<>>
    ELSE IF StartsWith(s, old)
    THEN new \o replace(SubSeq(s, Len(old) + 1, Len(s)), old, new)
    ELSE <<Head(s)>> \o replace(Tail(s), old, new)

\* the exceptions of exceptions.py, all UrsaException
UrsaExceptions == {"UrsaException", "InvalidSmilesError", "SchemaLogicError"}

\* AdapterLogicError, imported by the adapter from ursa.exceptions, is an
\* UrsaException as well (a route-local error)
IsUrsaException(error) == error \in UrsaExceptions \cup {"AdapterLogicError"}

\* canonicalize_smiles of ursa.domain.chem: an empty string or a string that
\* is no structure raises InvalidSmilesError; the structures of the model are
\* single letters, the canonical form the capital letter
canonicalize_smiles(smiles) ==
    IF smiles = <<>> \/ \E k \in 1..Len(smiles) :
                           smiles[k] \notin (65..90) \cup (97..122)
    THEN Raise("InvalidSmilesError")
    ELSE [kind |-> "str",
          value |-> [k \in 1..Len(smiles) |->
                        IF smiles[k] >= 97 THEN smiles[k] - 32 ELSE smiles[k]]]

\* a node of the raw tree passes the validation of AizynthNode: a known type
\* tag, a smiles field, and valid children
RECURSIVE AizynthNodeValid(_)
AizynthNodeValid(node) ==
    /\ node.type \in {"mol", "reaction"}
    /\ "smiles" \in DOMAIN node
    /\ \A k \in 1..Len(node.children) : AizynthNodeValid(node.children[k])

\* validation accepting the valid candidates of a list one by one
ValidatedRoutes_PerCandidate(blob) ==
    [ok |-> blob.is_list,
     root |-> SelectSeq(blob.items,
                  LAMBDA c : c.type = "mol" /\ AizynthNodeValid(c))]

\* AizynthRouteList.model_validate(raw_target_data): the list of molecule
\* rooted trees, or a ValidationError
ValidatedRoutes(blob) ==
    IF /\ blob.is_list
       /\ \A k \in 1..Len(blob.items) :
             blob.items[k].type = "mol" /\ AizynthNodeValid(blob.items[k])
    THEN [ok |-> TRUE, root |-> blob.items]
    ELSE [ok |-> FALSE, root |-> <<>>]

\* the path of every reactant is the path of the product
ChildPath_WithoutIndex(path_prefix, idx) == path_prefix \o DASH \o Str(0)

\* f"{path_prefix}-{i}"
ChildPath(path_prefix, idx) == path_prefix \o DASH \o Str(idx)

\* the reaction string with the reactants in raw order
AdapterReactionSmiles_Unsorted(reactant_smiles_list, product_smiles) ==
    join(DOT, reactant_smiles_list) \o GTGT \o product_smiles

\* f"{'.'.join(sorted(reactant_smiles_list))}>>{product_smiles}"
AdapterReactionSmiles(reactant_smiles_list, product_smiles) ==
    join(DOT, sorted(reactant_smiles_list)) \o GTGT \o product_smiles

\* _build_molecule_node, _build_reaction_node and the loop over the children
\* of a reaction: the node built, or the exception raised
RECURSIVE build_molecule_node(_, _), build_reaction_node(_, _, _),
          BuildReactants(_, _, _)
\* the builder that takes a molecule whose reaction has no reactants for a
\* starting material
build_molecule_node_LeafReactionAsStock(aizynth_mol, path_prefix) ==
    IF aizynth_mol.type # "mol" THEN Raise("AdapterLogicError")
    ELSE LET canon == canonicalize_smiles(aizynth_mol.smiles) IN
    IF canon.kind = "error" THEN canon
    ELSE LET canon_smiles == canon.value
             is_starting_mat ==
                 \/ aizynth_mol.children = <<>>
                 \/ aizynth_mol.children[1].children = <<>>
         IN
    IF is_starting_mat
    THEN NewMoleculeNodeResult(MoleculeNodeFields(path_prefix,
             generate_molecule_hash(canon_smiles), canon_smiles, TRUE, <<>>))
    ELSE LET reaction_input == aizynth_mol.children[1] IN
    IF reaction_input.type # "reaction" THEN Raise("AdapterLogicError")
    ELSE LET reaction_node ==
                 build_reaction_node(reaction_input, canon_smiles, path_prefix)
         IN
    IF reaction_node.kind = "error" THEN reaction_node
    ELSE NewMoleculeNodeResult(MoleculeNodeFields(path_prefix,
             generate_molecule_hash(canon_smiles), canon_smiles, FALSE,
             <<reaction_node.value>>))

\* the builder that takes the reaction of a molecule from its last child
build_molecule_node_LastChild(aizynth_mol, path_prefix) ==
    IF aizynth_mol.type # "mol" THEN Raise("AdapterLogicError")
    ELSE LET canon == canonicalize_smiles(aizynth_mol.smiles) IN
    IF canon.kind = "error" THEN canon
    ELSE LET canon_smiles == canon.value
             is_starting_mat == aizynth_mol.children = <<>>
         IN
    IF is_starting_mat
    THEN NewMoleculeNodeResult(MoleculeNodeFields(path_prefix,
             generate_molecule_hash(canon_smiles), canon_smiles, TRUE, <<>>))
    ELSE LET reaction_input == aizynth_mol.children[Len(aizynth_mol.children)] IN
    IF reaction_input.type # "reaction" THEN Raise("AdapterLogicError")
    ELSE LET reaction_node ==
                 build_reaction_node(reaction_input, canon_smiles, path_prefix)
         IN
    IF reaction_node.kind = "error" THEN reaction_node
    ELSE NewMoleculeNodeResult(MoleculeNodeFields(path_prefix,
             generate_molecule_hash(canon_smiles), canon_smiles, FALSE,
             <<reaction_node.value>>))

build_molecule_node(aizynth_mol, path_prefix) ==
    IF aizynth_mol.type # "mol" THEN Raise("AdapterLogicError")
    ELSE LET canon == canonicalize_smiles(aizynth_mol.smiles) IN
    IF canon.kind = "error" THEN canon
    ELSE LET canon_smiles == canon.value
             is_starting_mat == aizynth_mol.children = <<>>
         IN
    IF is_starting_mat
    THEN NewMoleculeNodeResult(MoleculeNodeFields(path_prefix,
             generate_molecule_hash(canon_smiles), canon_smiles, TRUE, <<>>))
    ELSE LET reaction_input == aizynth_mol.children[1] IN
    IF reaction_input.type # "reaction" THEN Raise("AdapterLogicError")
    ELSE LET reaction_node ==
                 build_reaction_node(reaction_input, canon_smiles, path_prefix)
         IN
    IF reaction_node.kind = "error" THEN reaction_node
    ELSE NewMoleculeNodeResult(MoleculeNodeFields(path_prefix,
             generate_molecule_hash(canon_smiles), canon_smiles, FALSE,
             <<reaction_node.value>>))

build_reaction_node(aizynth_rxn, product_smiles, path_prefix) ==
    IF aizynth_rxn.type # "reaction" THEN Raise("AdapterLogicError")
    ELSE LET built == BuildReactants(aizynth_rxn.children, path_prefix, 0) IN
    IF built.kind = "error" THEN built
    ELSE LET reactants == built.value
             reactant_smiles_list ==
                 [k \in 1..Len(reactants) |-> reactants[k].smiles]
         IN  [kind |-> "ReactionNode",
              value |-> ReactionNode(replace(path_prefix, URSA_MOL, URSA_RXN),
                            AdapterReactionSmiles(reactant_smiles_list, product_smiles),
                            reactants)]

BuildReactants(children, path_prefix, idx) ==
    IF children = <<>> THEN [kind |-> "list", value |-> <<>>]
    ELSE IF Head(children).type # "mol" THEN Raise("AdapterLogicError")
    ELSE LET reactant_node ==
                 build_molecule_node(Head(children), ChildPath(path_prefix, idx))
         IN
    IF reactant_node.kind = "error" THEN reactant_node
    ELSE LET rest == BuildReactants(Tail(children), path_prefix, idx + 1) IN
    IF rest.kind = "error" THEN rest
    ELSE [kind |-> "list", value |-> <<reactant_node.value>> \o rest.value]

\* _transform without the comparison of the root with the target
transform_WithoutTargetCheck(aizynth_root, target) ==
    LET retrosynthetic_tree == build_molecule_node(aizynth_root, ROOT_PATH) IN
    IF retrosynthetic_tree.kind = "error" THEN retrosynthetic_tree
    ELSE NewBenchmarkTreeResult(target, retrosynthetic_tree.value)

\* AizynthAdapter._transform: the BenchmarkTree, or the exception raised
transform(aizynth_root, target) ==
    LET retrosynthetic_tree == build_molecule_node(aizynth_root, ROOT_PATH) IN
    IF retrosynthetic_tree.kind = "error" THEN retrosynthetic_tree
    ELSE IF retrosynthetic_tree.value.smiles # target.smiles
    THEN Raise("AdapterLogicError")
    ELSE NewBenchmarkTreeResult(target, retrosynthetic_tree.value)

\* the iteration in which a failed transformation ends the generator
AdaptIteration_StopAtFailure(sofar, aizynth_tree_root, target) ==
    LET tree == transform(aizynth_tree_root, target) IN
    IF tree.kind = "BenchmarkTree"
    THEN [yielded |-> Append(sofar, tree.value), pc |-> "for", raised |-> None]
    ELSE [yielded |-> sofar, pc |-> "returned", raised |-> None]

\* one iteration of the loop of adapt: the tree is yielded, an UrsaException
\* is logged and the loop continues, any other exception leaves the generator
AdaptIteration(sofar, aizynth_tree_root, target) ==
    LET tree == transform(aizynth_tree_root, target) IN
    IF tree.kind = "BenchmarkTree"
    THEN [yielded |-> Append(sofar, tree.value), pc |-> "for", raised |-> None]
    ELSE IF IsUrsaException(tree.error)
    THEN [yielded |-> sofar, pc |-> "for", raised |-> None]
    ELSE [yielded |-> sofar, pc |-> "raised", raised |-> tree]

\* the structure strings of the raw trees: canonical ones, one that is not
\* canonical ("a") and one that is no structure ("!")
RawSmiles == SmilesStrs \cup {<<97>>, <<33>>}

RXN_TEMPLATE == <<114>>

\* what a raw node holds besides its children: a molecule with a structure,
\* a reaction, a node with an unknown type tag, a molecule without the
\* smiles field
RawLabels ==
    {[type |-> "mol", smiles |-> s] : s \in RawSmiles}
    \cup {[type |-> "reaction", smiles |-> RXN_TEMPLATE],
          [type |-> "other", smiles |-> RXN_TEMPLATE],
          [type |-> "mol"]}

RawNode(label, children) ==
    IF "smiles" \in DOMAIN label
    THEN [type |-> label.type, smiles |-> label.smiles, children |-> children]
    ELSE [type |-> label.type, children |-> children]

\* the raw tree of shape p below node k, node j holding labels[j]
RECURSIVE RawTree(_, _, _, _)
RawTree(p, labels, k, n) ==
    LET children == ChildrenFrom(p, k, k + 1, n)
    IN  RawNode(labels[k],
            [c \in 1..Len(children) |-> RawTree(p, labels, children[c], n)])

RECURSIVE Depth(_, _)
Depth(p, k) == IF k = 1 THEN 0 ELSE 1 + Depth(p, p[k])

\* molecules at the even depths, reactions at the odd ones, every node with
\* its smiles field
Alternating(p, labels, n) ==
    \A k \in 1..n :
        /\ "smiles" \in DOMAIN labels[k]
        /\ labels[k].type = (IF Depth(p, k) % 2 = 0 THEN "mol" ELSE "reaction")

SingleNodeTrees == {RawNode(l, <<>>) : l \in RawLabels}

\* the arguments of adapt: a blob that is no list, or a list of one or two
\* candidates, one of them a raw tree of at most MaxRawNodes nodes (of any
\* labelling up to MaxMixedNodes nodes, alternating above)
InitAdapter ==
    /\ DedupIdle
    /\ RunIdle
    /\ pc = "adapt"
    /\ call = None
    /\ result = None
    /\ cand = 0
    /\ yielded = <<>>
    /\ target_info \in TargetInfos
    /\ \/ raw_target_data = [is_list |-> FALSE, items |-> <<>>]
       \/ raw_target_data = [is_list |-> TRUE, items |-> <<>>]
       \/ \E n \in 1..MaxRawNodes :
            \E p \in TreeShapes(n), labels \in [1..n -> RawLabels] :
               /\ n <= MaxMixedNodes \/ Alternating(p, labels, n)
               /\ \E others \in {<<>>} \cup {<<c>> : c \in SingleNodeTrees},
                     first \in BOOLEAN :
                    raw_target_data =
                        [is_list |-> TRUE,
                         items |-> IF first
                                   THEN <<RawTree(p, labels, 1, n)>> \o others
                                   ELSE others \o <<RawTree(p, labels, 1, n)>>]

\* adapt up to its loop: a blob that fails validation ends the generator
AdaptValidate ==
    /\ pc = "adapt"
    /\ IF ValidatedRoutes(raw_target_data).ok
       THEN pc' = "for" /\ cand' = 1
       ELSE pc' = "returned" /\ cand' = cand
    /\ UNCHANGED <<dedupVars, runVars, call, result, raw_target_data, target_info,
                   yielded>>

\* one iteration of the loop over validated_routes.root
AdaptNext ==
    /\ pc = "for"
    /\ cand <= Len(ValidatedRoutes(raw_target_data).root)
    /\ LET s == AdaptIteration(yielded,
                    ValidatedRoutes(raw_target_data).root[cand], target_info)
       IN  /\ yielded' = s.yielded
           /\ pc' = s.pc
           /\ result' = s.raised
    /\ cand' = cand + 1
    /\ UNCHANGED <<dedupVars, runVars, call, raw_target_data, target_info>>

\* the loop is over: the generator is exhausted
AdaptReturn ==
    /\ pc = "for"
    /\ cand > Len(ValidatedRoutes(raw_target_data).root)
    /\ pc' = "returned"
    /\ UNCHANGED <<dedupVars, runVars, call, result, raw_target_data, target_info,
                   cand, yielded>>

NextAdapter == AdaptValidate \/ AdaptNext \/ AdaptReturn

SpecAdapter == InitAdapter /\ [][NextAdapter]_vars

(***************************************************************************)
(* Properties of adapt.                                                    *)
(***************************************************************************)
\* a raw node lacks a required field or has a type tag outside the known
\* set, here or below
RECURSIVE HasSchemaDefect(_)
HasSchemaDefect(node) ==
    \/ "smiles" \notin DOMAIN node
    \/ node.type \notin {"mol", "reaction"}
    \/ \E k \in 1..Len(node.children) : HasSchemaDefect(node.children[k])

\* the raw data is not a list of well-formed molecule-rooted trees
FailsValidation(blob) ==
    \/ ~blob.is_list
    \/ \E k \in 1..Len(blob.items) :
          blob.items[k].type # "mol" \/ HasSchemaDefect(blob.items[k])

\* the trees of the candidates whose transformation succeeds, in order
RECURSIVE Successes(_, _)
Successes(candidates, target) ==
    IF candidates = <<>> THEN <<>>
    ELSE LET tree == transform(Head(candidates), target)
         IN  (IF tree.kind = "BenchmarkTree" THEN <<tree.value>> ELSE <<>>)
                 \o Successes(Tail(candidates), target)

\* C15: for a list of schema-valid candidates, adapt yields exactly the
\* candidates whose transformation succeeds, in input order; a failure
\* (such as a canonicalization failure at any depth) removes that candidate
\* only, raises nothing, and every later candidate is still transformed.
C15_RouteLevelIsolation ==
    (~FailsValidation(raw_target_data) /\ pc # "adapt") =>
        /\ pc \in {"for", "returned"}
        /\ yielded = Successes(SubSeq(raw_target_data.items, 1, cand - 1),
                               target_info)
        /\ pc = "returned" => cand = Len(raw_target_data.items) + 1

\* witness of C15: the first of two candidates failed to canonicalize below
\* its root, and the second was yielded
C15_Witness ==
    /\ pc = "returned"
    /\ ~FailsValidation(raw_target_data)
    /\ Len(raw_target_data.items) = 2
    /\ canonicalize_smiles(raw_target_data.items[1].smiles).kind = "str"
    /\ transform(raw_target_data.items[1], target_info) = Raise("InvalidSmilesError")
    /\ Len(yielded) = 1

\* C16: if the raw data fails the validation of the source format, adapt
\* yields no route and raises nothing.
C16_InvalidInputYieldsNothing ==
    FailsValidation(raw_target_data) =>
        /\ yielded = <<>>
        /\ pc \in {"adapt", "returned"}

\* witness of C16: the generator ended without a route on a list of two
\* candidates one of which is well-formed and transforms
C16_Witness ==
    /\ pc = "returned"
    /\ FailsValidation(raw_target_data)
    /\ Len(raw_target_data.items) = 2
    /\ \E k \in 1..2 :
          /\ raw_target_data.items[k].type = "mol"
          /\ ~HasSchemaDefect(raw_target_data.items[k])
          /\ transform(raw_target_data.items[k], target_info).kind = "BenchmarkTree"

\* the candidate is rebuilt and its root differs from the target
RootMismatch(candidate) ==
    LET root == build_molecule_node(candidate, ROOT_PATH)
    IN  root.kind = "MoleculeNode" /\ root.value.smiles # target_info.smiles

\* the candidate is rebuilt and its root is the target
RootMatch(candidate) ==
    LET root == build_molecule_node(candidate, ROOT_PATH)
    IN  root.kind = "MoleculeNode" /\ root.value.smiles = target_info.smiles

\* C17: a candidate whose rebuilt root differs from the target's structure is
\* never yielded; the mismatch is an adapter logic error of that candidate's
\* transformation, caught by adapt, and the remaining candidates are yielded.
C17_TargetMismatchSkipped ==
    (~FailsValidation(raw_target_data) /\ pc # "adapt") =>
        /\ pc \in {"for", "returned"}
        /\ \A y \in 1..Len(yielded) :
              /\ yielded[y].retrosynthetic_tree.smiles = target_info.smiles
              /\ yielded[y].target = target_info
        /\ \A k \in 1..(cand - 1) :
              RootMismatch(raw_target_data.items[k]) =>
                  transform(raw_target_data.items[k], target_info)
                      = Raise("AdapterLogicError")
        /\ pc = "returned" =>
              Len(yielded) = Cardinality({k \in 1..Len(raw_target_data.items) :
                                             RootMatch(raw_target_data.items[k])})

\* witness of C17: the first of two candidates was rebuilt with another root
\* than the target, and the second was yielded
C17_Witness ==
    /\ pc = "returned"
    /\ ~FailsValidation(raw_target_data)
    /\ Len(raw_target_data.items) = 2
    /\ RootMismatch(raw_target_data.items[1])
    /\ Len(yielded) = 1

\* the raw tree breaks the alternation somewhere: a molecule with a molecule
\* among its children, or a reaction with a child that is not a molecule
RECURSIVE BreaksAlternation(_)
BreaksAlternation(node) ==
    \/ /\ node.type = "mol"
       /\ \E k \in 1..Len(node.children) : node.children[k].type = "mol"
    \/ /\ node.type = "reaction"
       /\ \E k \in 1..Len(node.children) : node.children[k].type # "mol"
    \/ \E k \in 1..Len(node.children) : BreaksAlternation(node.children[k])

\* C18: a candidate whose raw tree breaks the molecule/reaction alternation
\* anywhere is never yielded: what adapt yields are trees of the candidates
\* that keep the alternation.
C18_BrokenAlternationSkipped ==
    (~FailsValidation(raw_target_data) /\ pc # "adapt") =>
        /\ pc \in {"for", "returned"}
        /\ yielded =
              Successes(SelectSeq(SubSeq(raw_target_data.items, 1, cand - 1),
                                  LAMBDA c : ~BreaksAlternation(c)),
                        target_info)

\* every node below carries the id its position gives it: the molecule its
\* path, its reaction the path with 'ursa-mol' replaced by 'ursa-rxn', its
\* k-th reactant (from 0) the path followed by '-' and k
RECURSIVE HasPositionalIds(_, _)
HasPositionalIds(node, path) ==
    /\ node.id = path
    /\ \A r \in 1..Len(node.reactions) :
          /\ node.reactions[r].id =
                 URSA_RXN \o SubSeq(path, Len(URSA_MOL) + 1, Len(path))
          /\ \A k \in 1..Len(node.reactions[r].reactants) :
                 HasPositionalIds(node.reactions[r].reactants[k],
                                  path \o <<45, 47 + k>>)

\* the ids of the molecule nodes of a tree, in preorder
RECURSIVE MoleculeIds(_), MoleculeIdsOfAll(_)
MoleculeIds(node) ==
    <<node.id>> \o
        (IF node.reactions = <<>> THEN <<>>
         ELSE MoleculeIdsOfAll(node.reactions[1].reactants))

MoleculeIdsOfAll(nodes) ==
    IF nodes = <<>> THEN <<>>
    ELSE MoleculeIds(Head(nodes)) \o MoleculeIdsOfAll(Tail(nodes))

\* the raw tree with other structures at its molecules
RECURSIVE WithOtherStructures(_)
WithOtherStructures(node) ==
    [node EXCEPT
        !.smiles = IF node.type = "mol" /\ @ = SmilesStr(1)
                   THEN SmilesStr(2) ELSE IF node.type = "mol" THEN SmilesStr(1)
                   ELSE @,
        !.children = [k \in 1..Len(node.children) |->
                         WithOtherStructures(node.children[k])]]

\* C19: the ids of an adapted tree are a function of position only: the root
\* has id 'ursa-mol-root', the i-th reactant under a molecule with id p has
\* id p-i, the reaction has id p with 'ursa-mol' replaced by 'ursa-rxn'; so
\* the molecule ids of a tree are pairwise distinct, and a tree of the same
\* shape with other structures carries the same ids.
C19_PositionalIds ==
    /\ \A y \in 1..Len(yielded) :
          LET root == yielded[y].retrosynthetic_tree
          IN  /\ root.id = ROOT_PATH
              /\ HasPositionalIds(root, ROOT_PATH)
              /\ Cardinality(Range(MoleculeIds(root))) = Len(MoleculeIds(root))
    /\ (~FailsValidation(raw_target_data) /\ pc # "adapt") =>
          \A k \in 1..(cand - 1) :
              LET tree == build_molecule_node(raw_target_data.items[k], ROOT_PATH)
                  other == build_molecule_node(
                               WithOtherStructures(raw_target_data.items[k]), ROOT_PATH)
              IN  tree.kind = "MoleculeNode" =>
                      /\ other.kind = "MoleculeNode"
                      /\ MoleculeIds(other.value) = MoleculeIds(tree.value)

\* witness of C19: a yielded tree whose root reaction has two reactants of
\* the same structure
C19_Witness ==
    \E y \in 1..Len(yielded) :
        LET root == yielded[y].retrosynthetic_tree
        IN  /\ Len(root.reactions) = 1
            /\ Len(root.reactions[1].reactants) = 2
            /\ root.reactions[1].reactants[1].smiles
                   = root.reactions[1].reactants[2].smiles

\* the reaction string of every reaction below lists the structures of its
\* reactants in lexicographic order, joined by '.', then '>>' and the
\* structure of the product
RECURSIVE HasSortedReactionSmiles(_)
HasSortedReactionSmiles(node) ==
    \A r \in 1..Len(node.reactions) :
        LET reactants == node.reactions[r].reactants
            n == Len(reactants)
        IN  /\ \E q \in IndexPermutations(n) :
                  /\ \A k \in 1..(n - 1) :
                        ~StrLess(reactants[q[k + 1]].smiles, reactants[q[k]].smiles)
                  /\ node.reactions[r].reaction_smiles =
                        join(<<46>>, [k \in 1..n |-> reactants[q[k]].smiles])
                            \o <<62, 62>> \o node.smiles
            /\ \A k \in 1..n : HasSortedReactionSmiles(reactants[k])

\* C20: every reaction node built by the adapter has as its signature the
\* canonical structures of its reactants sorted and joined with '.', then
\* '>>' and the canonical structure of the product ('A.B>>T'); raw inputs
\* that differ in the order of a reaction's children give the same signature.
C20_ReactionSignature ==
    /\ \A y \in 1..Len(yielded) :
          HasSortedReactionSmiles(yielded[y].retrosynthetic_tree)
    /\ (~FailsValidation(raw_target_data) /\ pc # "adapt") =>
          \A k \in 1..(cand - 1) :
              LET c == raw_target_data.items[k]
                  tree == build_molecule_node(c, ROOT_PATH)
              IN  (tree.kind = "MoleculeNode" /\ c.children # <<>>) =>
                      \A q \in IndexPermutations(Len(c.children[1].children)) :
                          LET reordered == build_molecule_node(
                                  [c EXCEPT !.children[1].children =
                                      PermuteSeq(c.children[1].children, q)],
                                  ROOT_PATH)
                          IN  /\ reordered.kind = "MoleculeNode"
                              /\ reordered.value.reactions[1].reaction_smiles
                                     = tree.value.reactions[1].reaction_smiles

\* witness of C20: a yielded tree built from the raw children "B" and "a",
\* in this order, whose reaction has the signature 'A.B>>' and the product
C20_Witness ==
    /\ pc = "returned"
    /\ Len(raw_target_data.items) = 1
    /\ Len(yielded) = 1
    /\ LET c == raw_target_data.items[1]
           root == yielded[1].retrosynthetic_tree
       IN  /\ Len(c.children) = 1
           /\ Len(c.children[1].children) = 2
           /\ c.children[1].children[1].smiles = <<66>>
           /\ c.children[1].children[2].smiles = <<97>>
           /\ root.reactions[1].reaction_smiles = <<65, 46, 66, 62, 62>> \o root.smiles


\* the candidates whose transformation succeeds, in order
RECURSIVE Transformable(_, _)
Transformable(candidates, target) ==
    IF candidates = <<>> THEN <<>>
    ELSE (IF transform(Head(candidates), target).kind = "BenchmarkTree"
          THEN <<Head(candidates)>> ELSE <<>>)
             \o Transformable(Tail(candidates), target)

\* the node is what the raw molecule calls for: a starting material without
\* reactions for a raw molecule without children, otherwise a node that is no
\* starting material and has exactly one reaction, whose reactants are what
\* the children of the first child call for
RECURSIVE Conforms(_, _)
Conforms(node, raw_mol) ==
    IF raw_mol.children = <<>>
    THEN node.is_starting_material /\ node.reactions = <<>>
    ELSE /\ ~node.is_starting_material
         /\ Len(node.reactions) = 1
         /\ LET reactants == node.reactions[1].reactants
                raw_reactants == raw_mol.children[1].children
            IN  /\ Len(reactants) = Len(raw_reactants)
                /\ \A k \in 1..Len(reactants) :
                      Conforms(reactants[k], raw_reactants[k])

\* C25: every tree adapt yields carries the target it was asked for, its
\* root has the structure of the target, the node invariants hold at every
\* node, and every node is what its raw molecule calls for (a starting
\* material without reactions, or a product with exactly one reaction).
C25_YieldedTreesValid ==
    ~FailsValidation(raw_target_data) =>
        LET origins == Transformable(SubSeq(raw_target_data.items, 1, cand - 1),
                                     target_info)
        IN  /\ Len(yielded) = Len(origins)
            /\ \A k \in 1..Len(yielded) :
                  /\ yielded[k].target = target_info
                  /\ yielded[k].retrosynthetic_tree.smiles = target_info.smiles
                  /\ AllNodesValid(yielded[k].retrosynthetic_tree)
                  /\ Conforms(yielded[k].retrosynthetic_tree, origins[k])

\* witness of C25: a yielded tree whose root has a starting material and a
\* product among its reactants
C25_Witness ==
    /\ pc = "returned"
    /\ Len(yielded) = 1
    /\ LET root == yielded[1].retrosynthetic_tree
       IN  /\ Len(root.reactions) = 1
           /\ Len(root.reactions[1].reactants) = 2
           /\ root.reactions[1].reactants[1].is_starting_material
           /\ ~root.reactions[1].reactants[2].is_starting_material

\* the raw tree without the children after the first of its molecules
RECURSIVE FirstChildOnly(_)
FirstChildOnly(node) ==
    LET kept == IF node.type = "mol" /\ node.children # <<>>
                THEN <<node.children[1]>> ELSE node.children
    IN  [node EXCEPT !.children = [k \in 1..Len(kept) |-> FirstChildOnly(kept[k])]]

\* the raw data of a target without those children
WithFirstChildOnly(blob) ==
    [blob EXCEPT !.items = [k \in 1..Len(blob.items) |-> FirstChildOnly(blob.items[k])]]

\* what adapt yields for the raw data of a target
Adapted(blob, target) ==
    IF ValidatedRoutes(blob).ok
    THEN Successes(ValidatedRoutes(blob).root, target) ELSE <<>>

C24_MemoPerTraversal ==
    /\ seen_signatures = {RouteSignature(routes[k]) : k \in Processed}
    /\ (pc = "loop" /\ i > 1) =>
          LET tree == routes[i - 1].retrosynthetic_tree
          IN  /\ memo = generate_tree_signature(tree, EmptyMemo).memo
              /\ DOMAIN memo \subseteq Range(MoleculeIds(tree))

\* witness of C24: two routes that use the same node ids with different
\* content have been traversed one after the other
C24_Witness ==
    /\ pc = "loop"
    /\ i = 3
    /\ MoleculeIds(routes[1].retrosynthetic_tree)
          = MoleculeIds(routes[2].retrosynthetic_tree)
    /\ RouteSignature(routes[1]) # RouteSignature(routes[2])
    /\ Len(unique_routes) = 2

\* the signature by the recursion of _generate_tree_signature without a memo
RECURSIVE PlainSignature(_)
PlainSignature(node) ==
    IF node.is_starting_material THEN node.molecule_hash
    ELSE LET rs == node.reactions[1].reactants
             sigs == sorted([k \in 1..Len(rs) |-> PlainSignature(rs[k])])
         IN  TREE_SIGNATURE_PREFIX
                 \o sha256_hexdigest(join(<<>>, sigs) \o GTGT \o node.molecule_hash)

\* the molecule nodes of a tree
RECURSIVE MoleculeNodes(_)
MoleculeNodes(node) ==
    {node} \cup
        (IF node.reactions = <<>> THEN {}
         ELSE UNION {MoleculeNodes(node.reactions[1].reactants[k]) :
                        k \in 1..Len(node.reactions[1].reactants)})

\* the ids of the molecule nodes of the tree are pairwise distinct
DistinctIds(tree) ==
    LET ids == MoleculeIds(tree)
    IN  \A a, b \in 1..Len(ids) : ids[a] = ids[b] => a = b

\* C28: for a tree whose molecule node ids are pairwise distinct, the
\* signature computed with the memo of the traversal is the signature of the
\* recursion without a memo, and when the traversal has ended the memo holds,
\* under the id of every node of the tree, the unmemoized signature of that
\* node, and nothing else.
C28_MemoRefinesPlain ==
    (pc = "loop" /\ i > 1 /\ DistinctIds(routes[i - 1].retrosynthetic_tree)) =>
        LET tree == routes[i - 1].retrosynthetic_tree
        IN  /\ RouteSignature(routes[i - 1]) = PlainSignature(tree)
            /\ PlainSignature(tree) \in seen_signatures
            /\ DOMAIN memo = {node.id : node \in MoleculeNodes(tree)}
            /\ \A node \in MoleculeNodes(tree) : memo[node.id] = PlainSignature(node)

\* witness of C28: a tree of at least four nodes with pairwise distinct ids,
\* one reactant of its root being a product, has been traversed
C28_Witness ==
    /\ pc = "loop"
    /\ i = 2
    /\ LET tree == routes[1].retrosynthetic_tree
       IN  /\ DistinctIds(tree)
           /\ Len(MoleculeIds(tree)) >= 4
           /\ \E k \in 1..Len(tree.reactions[1].reactants) :
                 ~tree.reactions[1].reactants[k].is_starting_material
           /\ Len(tree.reactions[1].reactants) >= 2

\* C30: deduplicate_routes is idempotent and non-destructive: what it returns
\* for a list R is returned unchanged when deduplicated again, holds only
\* routes of R, and is the empty list for the empty list; no step of the
\* operation changes the list it was given or a route of it.
C30_IdempotentNonDestructive ==
    /\ [](pc = "done" =>
            /\ unique_routes = deduplicate_routes(routes)
            /\ deduplicate_routes(unique_routes) = unique_routes
            /\ Range(unique_routes) \subseteq Range(routes)
            /\ routes = <<>> => unique_routes = <<>>)
    /\ [][routes' = routes]_vars

\* witness of C30: a list with a duplicate has been deduplicated to two routes
C30_Witness ==
    /\ pc = "done"
    /\ Len(routes) = 3
    /\ Len(unique_routes) = 2

====
